---- MODULE Spec2Model ----
(***************************************************************************)
(* Model of the Markov-chain password generator of src/source/generator.py *)
(* (class MarkovPasswordGenerator and random_capitalize).                  *)
(*                                                                         *)
(* Characters are Unicode code points (integers); a Python str is a        *)
(* sequence of code points.  A Python dict is a sequence of entries        *)
(* [key, succ] in insertion order, so that list(dict.keys()) and the       *)
(* pickled form keep the order the code gives them.                        *)
(***************************************************************************)
EXTENDS Integers, Sequences, FiniteSets, TLC

(* ------------------------------ bounds --------------------------------- *)
\* longest raw corpus text that is enumerated
MaxCorpusLen == 3
\* largest chain_order passed to the constructor
MaxOrder == 2
\* largest length passed to generate
MaxLength == 4
\* longest raw text handed to _preprocess_text in NormSpec
MaxNormLen == 3

(* ---------------------------- characters ------------------------------- *)
\* 'a'..'z'
IsLatinLower(c) == c \in 97..122
\* 'A'..'Z'
IsLatinUpper(c) == c \in 65..90
\* Cyrillic 'а'..'я' (U+0430..U+044F)
IsCyrLower(c) == c \in 1072..1103
\* Cyrillic 'А'..'Я' (U+0410..U+042F)
IsCyrUpper(c) == c \in 1040..1071

\* the character class [a-zA-Zа-яА-ЯёЁ] of the regular expression
InLetterClass(c) ==
    \/ IsLatinLower(c) \/ IsLatinUpper(c)
    \/ IsCyrLower(c) \/ IsCyrUpper(c)
    \/ c = 1105 \/ c = 1025

\* LowerChar without the branch for U+0401, which lies outside 'А'..'Я'
LowerCharNoYo(c) ==
    IF IsLatinUpper(c) \/ IsCyrUpper(c) THEN c + 32
    ELSE IF c = 201 THEN 233
    ELSE c

\* str.lower() on one character, for the characters the model enumerates
\* (201 is Latin capital E with acute, which lower() maps to 233)
LowerChar(c) ==
    IF IsLatinUpper(c) \/ IsCyrUpper(c) THEN c + 32
    ELSE IF c = 1025 THEN 1105
    ELSE IF c = 201 THEN 233
    ELSE c

\* UpperChar with the sign of the case offset slipped
UpperCharWrongSign(c) ==
    IF IsLatinLower(c) \/ IsCyrLower(c) THEN c + 32
    ELSE IF c = 1105 THEN 1025
    ELSE IF c = 233 THEN 201
    ELSE c

\* str.upper() on one character
UpperChar(c) ==
    IF IsLatinLower(c) \/ IsCyrLower(c) THEN c - 32
    ELSE IF c = 1105 THEN 1025
    ELSE IF c = 233 THEN 201
    ELSE c

\* str.isalpha() on one character
IsAlpha(c) == InLetterClass(c) \/ c = 201 \/ c = 233

\* str.lower() on a string
LowerStr(s) == [i \in 1..Len(s) |-> LowerChar(s[i])]

(* ------------------------- _preprocess_text ---------------------------- *)
\* re.sub(r'[^a-zA-Zа-яА-ЯёЁ]', '', text): drop every character outside the class
RECURSIVE ReSubNonLetters(_)
ReSubNonLetters(text) ==
    IF text = << >> THEN << >>
    ELSE IF InLetterClass(Head(text))
         THEN << Head(text) >> \o ReSubNonLetters(Tail(text))
         ELSE ReSubNonLetters(Tail(text))

\* MarkovPasswordGenerator._preprocess_text
PreprocessText(text) == LowerStr(ReSubNonLetters(text))

(* ------------------------------ slices --------------------------------- *)
\* Python s[-n:] for n >= 1: the last min(n, len(s)) characters
LastChars(s, n) ==
    IF Len(s) <= n THEN s ELSE SubSeq(s, Len(s) - n + 1, Len(s))

\* FirstChars that forgets to cut
FirstCharsUncut(s, n) == s

\* Python s[:n] for n >= 0: the first min(n, len(s)) characters
FirstChars(s, n) ==
    IF Len(s) <= n THEN s ELSE SubSeq(s, 1, n)

(* --------------------- dict (defaultdict(list)) ------------------------ *)
\* the keys of a dict, in insertion order: list(d.keys())
DictKeys(d) == [i \in 1..Len(d) |-> d[i].key]

\* key in d
HasKey(d, k) == \E i \in 1..Len(d) : d[i].key = k

\* d.get(k): the value of k, or None (modelled as the empty sequence, which
\* is falsy like None; the code only tests "not next_chars")
DictGet(d, k) ==
    IF HasKey(d, k)
    THEN d[CHOOSE i \in 1..Len(d) : d[i].key = k].succ
    ELSE << >>

\* AfterGet for a lookup written d[k], which on a defaultdict(list) inserts
\* a missing key with an empty list
AfterGetInserting(d, k) ==
    IF HasKey(d, k) THEN d ELSE Append(d, [key |-> k, succ |-> << >>])

\* the dict after d.get(k) (line 122): get never inserts
AfterGet(d, k) == d

\* the dict after d[k] on a defaultdict(list) (line 126): __missing__
\* inserts an empty list under a key that is not there
AfterGetItem(d, k) ==
    IF HasKey(d, k) THEN d ELSE Append(d, [key |-> k, succ |-> << >>])

\* DictAppend that assigns [c] to the key instead of appending to its list
DictAppendOverwrite(d, k, c) ==
    IF HasKey(d, k)
    THEN [i \in 1..Len(d) |->
            IF d[i].key = k THEN [key |-> k, succ |-> << c >>] ELSE d[i]]
    ELSE Append(d, [key |-> k, succ |-> << c >>])

\* d[k].append(c) on a defaultdict(list): a missing key is inserted at the end
DictAppend(d, k, c) ==
    IF HasKey(d, k)
    THEN [i \in 1..Len(d) |->
            IF d[i].key = k THEN [key |-> k, succ |-> Append(d[i].succ, c)]
            ELSE d[i]]
    ELSE Append(d, [key |-> k, succ |-> << c >>])

(* ---------------------------- _build_model ----------------------------- *)
\* the loop of lines 93-97; i is the 1-based index of the window start
RECURSIVE BuildLoop(_, _, _, _)
BuildLoop(d, clean_text, N, i) ==
    IF i > Len(clean_text) - N THEN d
    ELSE BuildLoop(DictAppend(d, SubSeq(clean_text, i, i + N - 1), clean_text[i + N]),
                   clean_text, N, i + 1)

\* the transition table _build_model leaves in self.model
BuildTable(clean_text, N) == BuildLoop(<< >>, clean_text, N, 1)

\* StartComprehension with the slice one character late
RECURSIVE StartComprehensionLate(_, _, _)
StartComprehensionLate(clean_text, N, i) ==
    IF i > Len(clean_text) - N THEN << >>
    ELSE (IF i = 1 \/ clean_text[i - 1] = 32
          THEN << SubSeq(clean_text, i + 1, i + N) >>
          ELSE << >>)
         \o StartComprehensionLate(clean_text, N, i + 1)

\* the list comprehension of lines 99-103 (i here is 1-based, so the
\* code's "i == 0" is i = 1 and clean_text[i - 1] is the character before)
RECURSIVE StartComprehension(_, _, _)
StartComprehension(clean_text, N, i) ==
    IF i > Len(clean_text) - N THEN << >>
    ELSE (IF i = 1 \/ clean_text[i - 1] = 32
          THEN << SubSeq(clean_text, i, i + N - 1) >>
          ELSE << >>)
         \o StartComprehension(clean_text, N, i + 1)

\* self.start_states after _build_model (lines 99-106)
BuildStartStates(clean_text, N, d) ==
    LET preferred == StartComprehension(clean_text, N, 1)
    IN IF preferred = << >> THEN DictKeys(d) ELSE preferred

(* ------------------------------ inputs --------------------------------- *)
\* characters of the enumerated corpus files: 'a', 'B' and the space
CorpusChars == {97, 66, 32}

\* all sequences over S of length at most n
RECURSIVE SeqsUpTo(_, _)
SeqsUpTo(S, n) ==
    IF n = 0 THEN {<< >>}
    ELSE LET shorter == SeqsUpTo(S, n - 1)
         IN shorter \cup {Append(s, c) : s \in {t \in shorter : Len(t) = n - 1}, c \in S}

\* what corpus_file_path may name: no file, or a UTF-8 text
CorpusFiles ==
    {[exists |-> FALSE, text |-> << >>]}
    \cup {[exists |-> TRUE, text |-> t] : t \in SeqsUpTo(CorpusChars, MaxCorpusLen)}

(* ------------------------ the file at MODEL_PATH ----------------------- *)
\* no model.pkl
NoFile == [kind |-> "absent", data |-> [model |-> << >>, start_states |-> << >>]]

\* a model.pkl that open() or pickle.load() or the subscripts of lines 49-52
\* reject; the kind names the cause
BadFile(kind) == [kind |-> kind, data |-> [model |-> << >>, start_states |-> << >>]]

\* unreadable: open(MODEL_PATH, 'rb') raises PermissionError (a write-only
\* file, so that _save_model can still replace it); empty: pickle.load raises
\* EOFError; garbage: pickle.load raises UnpicklingError; nomodel: the
\* unpickled dict has no 'model' entry, data['model'] raises KeyError
BadKinds == {"unreadable", "empty", "garbage", "nomodel"}

\* the exception the try block of _load_model (lines 49-52) raises, or "none"
LoadRaises(file) ==
    CASE file.kind = "unreadable" -> "PermissionError"
      [] file.kind = "empty"      -> "EOFError"
      [] file.kind = "garbage"    -> "UnpicklingError"
      [] file.kind = "nomodel"    -> "KeyError"
      [] OTHER                    -> "none"

\* the except clause of _load_model (line 54)
LoadCatches(exc) == exc \in {"FileNotFoundError", "UnpicklingError"}

\* the exception _build_model raises before it builds (lines 83-91), or "none"
BuildRaises(corpus) ==
    IF ~corpus.exists THEN "FileNotFoundError"
    ELSE IF PreprocessText(corpus.text) = << >> THEN "ValueError"
    ELSE "none"

\* SaveData that pickles the table alone
SaveDataNoStarts(m, ss) == [kind |-> "pickle", data |-> [model |-> m, start_states |-> << >>]]

\* data_to_save of _save_model (lines 62-65), as pickle.dump writes it
SaveData(m, ss) == [kind |-> "pickle", data |-> [model |-> m, start_states |-> ss]]

(* ------------------------------- state --------------------------------- *)
VARIABLES
    model_file,     \* the file at MODEL_PATH
    file_from,      \* ghost: chain_order and clean text of the generator that saved model_file
    constructed,    \* a MarkovPasswordGenerator object exists (its __init__ returned)
    chain_order,    \* self.chain_order
    model,          \* self.model
    start_states,   \* self.start_states
    built_from,     \* ghost: chain_order and clean text self.model was built with
    ctor,           \* ghost: what the last __init__ call did
    genPC,          \* position of the running generate call: "idle", "loop" or "done"
    length,         \* the argument of generate
    start_state,    \* local of generate
    password_base,  \* local of generate
    state,          \* local of generate: the key of the last lookup
    walk,           \* ghost: counters of the running generate call
    result,         \* how generate ended and the value it returned
    norm            \* a call sequence of _preprocess_text on its own (NormSpec)

vars == << model_file, file_from, constructed, chain_order, model, start_states,
           built_from, ctor, genPC, length, start_state, password_base, state, walk,
           result, norm >>

objVars == << constructed, chain_order, model, start_states, built_from >>
genVars == << genPC, length, start_state, password_base, state, walk, result >>
fileVars == << model_file, file_from >>

NoOrigin == [chain_order |-> 0, clean_text |-> << >>]
NoCtor == [called |-> FALSE, force |-> FALSE, file_kind |-> "absent",
           corpus |-> "none", tried_load |-> FALSE, load_exc |-> "none",
           build_tried |-> FALSE, built |-> FALSE, saved |-> FALSE,
           file_same |-> TRUE, error |-> "none"]
NoWalk == [iterations |-> 0, lookups |-> 0, recoveries |-> 0, dead_end |-> FALSE]
NoNorm == [pc |-> "idle", text |-> << >>, once |-> << >>, twice |-> << >>]
NoResult == [how |-> "none", value |-> << >>]

\* nothing on disk, no generator object, no call running
InitObjects ==
    /\ model_file = NoFile
    /\ file_from = NoOrigin
    /\ constructed = FALSE
    /\ chain_order = 0
    /\ model = << >>
    /\ start_states = << >>
    /\ built_from = NoOrigin
    /\ ctor = NoCtor
    /\ genPC = "idle"
    /\ length = 0
    /\ start_state = << >>
    /\ password_base = << >>
    /\ state = << >>
    /\ walk = NoWalk
    /\ result = NoResult

Init == InitObjects /\ norm = NoNorm

(* ------------------------------ __init__ ------------------------------- *)
\* MarkovPasswordGenerator(corpus_file_path, chain_order, force_rebuild):
\* lines 32-43 with _load_model, _build_model and _save_model inlined
Construct(corpus, order, force) ==
    LET tryLoad   == model_file.kind # "absent" /\ ~force
        loadExc   == IF tryLoad THEN LoadRaises(model_file) ELSE "none"
        loaded    == tryLoad /\ loadExc = "none"
        doBuild   == ~tryLoad \/ (loadExc # "none" /\ LoadCatches(loadExc))
        buildExc  == IF doBuild THEN BuildRaises(corpus) ELSE "none"
        built     == doBuild /\ buildExc = "none"
        error     == IF doBuild THEN buildExc ELSE loadExc
        clean     == PreprocessText(corpus.text)
        table     == BuildTable(clean, order)
        newModel  == IF loaded THEN model_file.data.model
                     ELSE IF built THEN table ELSE << >>
        newStarts == IF loaded THEN model_file.data.start_states
                     ELSE IF built THEN BuildStartStates(clean, order, table) ELSE << >>
        newFile   == IF built THEN SaveData(newModel, newStarts) ELSE model_file
    IN
    /\ ~constructed
    /\ genPC = "idle"
    /\ constructed' = (error = "none")
    /\ chain_order' = order
    /\ model' = newModel
    /\ start_states' = newStarts
    /\ built_from' = IF loaded THEN file_from
                     ELSE IF built THEN [chain_order |-> order, clean_text |-> clean]
                     ELSE NoOrigin
    /\ model_file' = newFile
    /\ file_from' = IF built THEN [chain_order |-> order, clean_text |-> clean]
                    ELSE file_from
    /\ ctor' = [called |-> TRUE, force |-> force, file_kind |-> model_file.kind,
                corpus |-> IF ~corpus.exists THEN "missing"
                           ELSE IF clean = << >> THEN "noletters" ELSE "letters",
                tried_load |-> tryLoad, load_exc |-> loadExc,
                build_tried |-> doBuild, built |-> built, saved |-> built,
                file_same |-> (newFile = model_file), error |-> error]
    /\ genPC' = "idle"
    /\ length' = 0
    /\ start_state' = << >>
    /\ password_base' = << >>
    /\ state' = << >>
    /\ walk' = NoWalk
    /\ result' = NoResult
    /\ UNCHANGED norm

\* the generator object is dropped (the command that made it ends); a later
\* __init__ starts from a fresh self (lines 33-36) whatever the object was
Discard ==
    /\ genPC \in {"idle", "done"}
    /\ constructed \/ ctor.called
    /\ constructed' = FALSE
    /\ chain_order' = 0
    /\ model' = << >>
    /\ start_states' = << >>
    /\ built_from' = NoOrigin
    /\ ctor' = NoCtor
    /\ genPC' = "idle"
    /\ length' = 0
    /\ start_state' = << >>
    /\ password_base' = << >>
    /\ state' = << >>
    /\ walk' = NoWalk
    /\ result' = NoResult
    /\ UNCHANGED << fileVars, norm >>

\* the environment replaces or removes model.pkl between the lifetimes of
\* two generator objects (a generator reads the file in __init__ only)
FileDamaged(kind) ==
    /\ ~constructed
    /\ genPC = "idle"
    /\ model_file.kind # kind
    /\ model_file' = IF kind = "absent" THEN NoFile ELSE BadFile(kind)
    /\ file_from' = NoOrigin
    /\ UNCHANGED << objVars, ctor, genVars, norm >>

(* ------------------------------ generate ------------------------------- *)
\* the string of line 115, "Ошибка: Модель не построена."
ErrorString ==
    << 1054, 1096, 1080, 1073, 1082, 1072, 58, 32, 1052, 1086, 1076, 1077, 1083,
       1100, 32, 1085, 1077, 32, 1087, 1086, 1089, 1090, 1088, 1086, 1077, 1085,
       1072, 46 >>

\* random_capitalize (lines 14-24); mask[i] is the outcome of
\* "random.random() < probability" for the i-th character
RandomCapitalize(s, mask) ==
    [i \in 1..Len(s) |-> IF IsAlpha(s[i]) /\ mask[i] THEN UpperChar(s[i]) ELSE s[i]]

\* LoopContinues with <= for <
LoopContinuesOneMore(base, len) == Len(base) <= len

\* the loop condition of line 120
LoopContinues(base, len) == Len(base) < len

\* generate, lines 110-118: the empty-model test and the draw of the start state
GenStart(len) ==
    /\ constructed
    /\ genPC \in {"idle", "done"}
    /\ length' = len
    /\ state' = << >>
    /\ walk' = NoWalk
    /\ IF model = << >>
       THEN /\ result' = [how |-> "returned", value |-> ErrorString]
            /\ genPC' = "done"
            /\ start_state' = << >>
            /\ password_base' = << >>
       ELSE IF start_states = << >>
       THEN \* random.choice of an empty list
            /\ result' = [how |-> "IndexError", value |-> << >>]
            /\ genPC' = "done"
            /\ start_state' = << >>
            /\ password_base' = << >>
       ELSE \E i \in 1..Len(start_states) :
            /\ start_state' = start_states[i]
            /\ password_base' = start_states[i]
            /\ genPC' = "loop"
            /\ result' = NoResult
    /\ UNCHANGED << fileVars, objVars, ctor, norm >>

\* generate, lines 120-128: one iteration of the while loop
GenStep ==
    /\ genPC = "loop"
    /\ LoopContinues(password_base, length)
    /\ LET suffix   == LastChars(password_base, chain_order)
           got      == DictGet(model, suffix)
           dead_end == got = << >>
       IN \E k \in 1..Len(model) :
            \* k is the draw of line 125; it is used in a dead end only
            /\ dead_end \/ k = 1
            /\ LET next_chars == IF dead_end THEN model[k].succ ELSE got
               IN /\ state' = IF dead_end THEN model[k].key ELSE suffix
                  /\ walk' = [iterations |-> walk.iterations + 1,
                              lookups    |-> walk.lookups + 1,
                              recoveries |-> walk.recoveries + (IF dead_end THEN 1 ELSE 0),
                              dead_end   |-> dead_end]
                  /\ IF next_chars = << >>
                     THEN \* random.choice of an empty list
                          /\ result' = [how |-> "IndexError", value |-> << >>]
                          /\ genPC' = "done"
                          /\ UNCHANGED password_base
                     ELSE \E j \in 1..Len(next_chars) :
                          /\ password_base' = Append(password_base, next_chars[j])
                          /\ UNCHANGED << genPC, result >>
                  /\ model' = IF dead_end
                               THEN AfterGetItem(AfterGet(model, suffix), model[k].key)
                               ELSE AfterGet(model, suffix)
    /\ UNCHANGED << fileVars, constructed, chain_order, start_states, built_from,
                    ctor, length, start_state, norm >>

\* generate, lines 130-131: truncation and random_capitalize
GenFinish ==
    /\ genPC = "loop"
    /\ ~LoopContinues(password_base, length)
    /\ LET cut == FirstChars(password_base, length)
       IN \E mask \in [1..Len(cut) -> BOOLEAN] :
            result' = [how |-> "returned", value |-> RandomCapitalize(cut, mask)]
    /\ genPC' = "done"
    /\ UNCHANGED << fileVars, objVars, ctor, length, start_state, password_base,
                    state, walk, norm >>

(* --------------------------- specifications ---------------------------- *)
Next ==
    \/ \E corpus \in CorpusFiles, order \in 1..MaxOrder, force \in BOOLEAN :
          Construct(corpus, order, force)
    \/ Discard
    \/ \E kind \in BadKinds \cup {"absent"} : FileDamaged(kind)
    \/ \E len \in 1..MaxLength : GenStart(len)
    \/ GenStep
    \/ GenFinish

Spec == Init /\ [][Next]_vars

\* generate runs in one thread without waiting for anything: once called,
\* the interpreter executes the loop's next iteration and the statements
\* after the loop
FairSpec == Spec /\ WF_vars(GenStep) /\ WF_vars(GenFinish)

\* characters of the texts handed to _preprocess_text in NormSpec:
\* 'a', 'Z', Cyrillic 'я', 'А', 'ё', 'Ё', the space, U+00C9 and U+0450
NormChars == {97, 90, 1103, 1040, 1105, 1025, 32, 201, 1104}

NormInit ==
    /\ InitObjects
    /\ norm \in {[pc |-> "input", text |-> t, once |-> << >>, twice |-> << >>] :
                    t \in SeqsUpTo(NormChars, MaxNormLen)}

\* clean_text = self._preprocess_text(text)
NormOnce ==
    /\ norm.pc = "input"
    /\ norm' = [norm EXCEPT !.pc = "once", !.once = PreprocessText(norm.text)]
    /\ UNCHANGED << fileVars, objVars, ctor, genVars >>

\* _preprocess_text applied to its own result
NormTwice ==
    /\ norm.pc = "once"
    /\ norm' = [norm EXCEPT !.pc = "twice", !.twice = PreprocessText(norm.once)]
    /\ UNCHANGED << fileVars, objVars, ctor, genVars >>

NormNext == NormOnce \/ NormTwice

NormSpec == NormInit /\ [][NormNext]_vars

(* ------------------------------- claims -------------------------------- *)
Max(a, b) == IF a >= b THEN a ELSE b

\* the generate call ended by returning a walk's result (lines 117-131)
WalkReturned == genPC = "done" /\ model # << >> /\ result.how = "returned"

\* the set of characters of a string
CharsOf(s) == {s[i] : i \in 1..Len(s)}

\* C1: on a non-empty transition table, built or loaded (also one loaded
\* under another chain order than it was built with), a generate call that
\* returns gives a string of exactly `length` characters.
C1_ExactLength ==
    (genPC = "done" /\ model # << >> /\ result.how = "returned")
        => Len(result.value) = length

\* C1 witness: a model built with one order and loaded under another has
\* been walked through a dead end and returned a string of that length
C1_Witness ==
    /\ WalkReturned
    /\ ctor.tried_load /\ ctor.load_exc = "none"
    /\ built_from.chain_order # chain_order
    /\ walk.recoveries > 0
    /\ Len(result.value) = length

\* C2: with fewer than order + 1 letters in the normalized corpus, generate
\* fails with a distinct error and returns nothing on the output channel.
C2_EmptyModelRaises ==
    (/\ genPC = "done"
     /\ ctor.built
     /\ Len(built_from.clean_text) < chain_order + 1)
        => result.how # "returned"

\* the bookkeeping of a walk: while generate walks, every iteration has
\* appended exactly one character and the call can take its next step; when
\* it has ended, the loop has run exactly max(0, length - N) iterations, N
\* the length of the start state, a dead-end recovery adding none; for
\* length <= N there was no lookup and the result is a truncation of the
\* start state up to the letter case that random_capitalize changes
WalkAccounts ==
    /\ genPC = "loop" =>
          /\ walk.iterations = Len(password_base) - Len(start_state)
          /\ walk.iterations <= Max(0, length - Len(start_state))
          /\ walk.recoveries <= walk.iterations
          /\ (ENABLED GenStep) \/ (ENABLED GenFinish)
    /\ (genPC = "done" /\ model # << >>) =>
          /\ result.how = "returned"
          /\ walk.iterations = Max(0, length - Len(start_state))
          /\ walk.lookups = walk.iterations
          /\ length <= Len(start_state) =>
                /\ walk.lookups = 0
                /\ LowerStr(result.value) = FirstChars(start_state, length)

\* C3 as amended: on a non-empty table generate always terminates, also
\* through dead ends: every started walk ends, after exactly
\* max(0, length - N) iterations of one appended character each; for
\* length <= N it makes no lookup and returns a truncation of the start
\* state up to the letter case that random_capitalize changes.
C3_WalkTerminates ==
    /\ []WalkAccounts
    /\ (genPC = "loop") ~> (genPC = "done")

\* C3 witness: a walk that recovered from a dead end has ended
C3_Witness ==
    /\ WalkReturned
    /\ walk.recoveries > 0
    /\ walk.iterations = length - Len(start_state)

\* C3 as stated: for length <= N the result is a truncation of the start state
C3_ResultIsTruncation ==
    (genPC = "done" /\ model # << >>) =>
          /\ result.how = "returned"
          /\ walk.iterations = Max(0, length - Len(start_state))
          /\ length <= Len(start_state) =>
                /\ walk.lookups = 0
                /\ result.value = FirstChars(start_state, length)

\* the last __init__ call tried to load model.pkl and the load raised
LoadFailed == ctor.called /\ ctor.tried_load /\ ctor.load_exc # "none"

\* the last __init__ call loaded model.pkl
Loaded == ctor.called /\ ctor.tried_load /\ ctor.load_exc = "none"

\* C4: a load of model.pkl that fails, for whatever reason, is a cache miss:
\* no error of the load reaches the caller, and with a usable corpus the
\* model is rebuilt and saved again.
C4_LoadNeverFatal ==
    LoadFailed =>
        /\ ctor.error # ctor.load_exc
        /\ ctor.corpus = "letters" => (constructed /\ ctor.built /\ ctor.saved)

\* C5: a model that was saved and is then loaded equals the original: the
\* same chain order, the same transition entries and the same start states,
\* whatever order the loading generator was constructed with.
C5_RoundTrip ==
    (constructed /\ Loaded) =>
        /\ chain_order = file_from.chain_order
        /\ model = BuildTable(file_from.clean_text, file_from.chain_order)
        /\ start_states = BuildStartStates(file_from.clean_text, file_from.chain_order,
                              BuildTable(file_from.clean_text, file_from.chain_order))

\* the indices i (1-based) at which a window of width N with a successor starts
Windows(text, N) == 1..(Len(text) - N)

\* the reference table: the successors of state s, in corpus order
RefSuccessors(text, N, s) ==
    LET at == {i \in Windows(text, N) : SubSeq(text, i, i + N - 1) = s}
        nth(k) == CHOOSE i \in at : Cardinality({j \in at : j <= i}) = k
    IN [k \in 1..Cardinality(at) |-> text[nth(k) + N]]

\* the keys of the reference table
RefKeys(text, N) == {SubSeq(text, i, i + N - 1) : i \in Windows(text, N)}

RECURSIVE SumLen(_, _)
SumLen(d, i) == IF i > Len(d) THEN 0 ELSE Len(d[i].succ) + SumLen(d, i + 1)

\* C6: the table _build_model builds from normalized text and order N is the
\* reference table: its keys are the windows text[i:i+N], i in [0, len - N),
\* each once, each with the successors text[i+N] in corpus order, duplicates
\* kept; so every key has length N and a non-empty list, the lists hold
\* max(0, len - N) entries in all, and the table is non-empty iff
\* len >= N + 1.
C6_TableIsReference ==
    (constructed /\ ctor.built) =>
        LET text == built_from.clean_text
            N    == chain_order
        IN /\ built_from.chain_order = N
           /\ {model[i].key : i \in 1..Len(model)} = RefKeys(text, N)
           /\ \A i, j \in 1..Len(model) : model[i].key = model[j].key => i = j
           /\ \A i \in 1..Len(model) :
                 /\ model[i].succ = RefSuccessors(text, N, model[i].key)
                 /\ Len(model[i].key) = N
                 /\ model[i].succ # << >>
           /\ SumLen(model, 1) = Max(0, Len(text) - N)
           /\ (model # << >>) <=> (Len(text) >= N + 1)

\* C6 witness: a built table with a state that has two successors
C6_Witness ==
    /\ constructed /\ ctor.built
    /\ \E i \in 1..Len(model) : Len(model[i].succ) >= 2

\* C7: after a successful construction, by building, by loading a saved
\* file, or by a failed load and a rebuild, a non-empty table comes with a
\* non-empty start_states whose members are all keys of the table, and the
\* draw of the start state in generate does not fail.
C7_StartStatesValid ==
    constructed =>
        /\ model # << >> =>
              /\ start_states # << >>
              /\ \A i \in 1..Len(start_states) : HasKey(model, start_states[i])
        /\ (genPC = "done" /\ walk.iterations = 0) => result.how # "IndexError"
        /\ genPC = "loop" => HasKey(model, start_state)

\* C7 witness: a generator that loaded a saved non-empty model has drawn
\* its start state
C7_Witness ==
    /\ constructed /\ Loaded
    /\ model # << >>
    /\ genPC = "loop"
    /\ walk.iterations = 0

\* the last __init__ call had to rebuild: force_rebuild, no file, or a failed load
RebuildRequired ==
    ctor.called /\ (ctor.force \/ ctor.file_kind = "absent" \/ LoadFailed)

\* C8: when a rebuild is required and the corpus is missing or has no
\* letters, construction fails with CorpusNotFound (FileNotFoundError),
\* respectively EmptyCorpus (ValueError), nothing is saved and model.pkl is
\* as it was.
C8_BuildErrorSurfaces ==
    (RebuildRequired /\ ctor.corpus \in {"missing", "noletters"}) =>
        /\ ~constructed
        /\ ctor.corpus = "missing" => ctor.error = "FileNotFoundError"
        /\ ctor.corpus = "noletters" => ctor.error = "ValueError"
        /\ ~ctor.saved
        /\ ctor.file_same

\* the letters that occur in a model: in start states, keys and successors
ModelLetters(d, ss) ==
    UNION ({CharsOf(ss[i]) : i \in 1..Len(ss)}
           \cup {CharsOf(d[i].key) : i \in 1..Len(d)}
           \cup {CharsOf(d[i].succ) : i \in 1..Len(d)})

\* C9: every character of a generated password, lower-cased, is a letter of
\* the model, and so of the normalized corpus the model was built from;
\* each character is a model letter or the capital of one.
C9_OnlyModelLetters ==
    (genPC = "done" /\ model # << >> /\ result.how = "returned") =>
        /\ \A i \in 1..Len(result.value) :
              /\ LowerChar(result.value[i]) \in ModelLetters(model, start_states)
              /\ \E c \in ModelLetters(model, start_states) :
                    result.value[i] = c \/ result.value[i] = c - 32
        /\ ModelLetters(model, start_states) \subseteq CharsOf(built_from.clean_text)

\* C9 witness: a returned password with a capital in it, after a dead end
C9_Witness ==
    /\ WalkReturned
    /\ walk.recoveries > 0
    /\ \E i \in 1..Len(result.value) : result.value[i] # LowerChar(result.value[i])

\* the lowercase alphabet: a-z, Cyrillic U+0430..U+044F and U+0451
LowerAlphabet == (97..122) \cup (1072..1103) \cup {1105}

\* the capital of a letter of the lowercase alphabet
CapitalOf(l) == IF l = 1105 THEN 1025 ELSE l - 32

\* the positions of t that hold a letter of the alphabet, in either case
LetterPositions(t) ==
    {p \in 1..Len(t) : \E l \in LowerAlphabet : t[p] = l \/ t[p] = CapitalOf(l)}

\* C10: _preprocess_text is idempotent and its result is the letters of the
\* text, lower-cased, in their order, every other character removed: only
\* a-z, the Cyrillic lowercase letters and U+0451 occur in it.
C10_NormalizeIdempotent ==
    /\ norm.pc \in {"once", "twice"} =>
          LET kept == LetterPositions(norm.text)
              nth(k) == CHOOSE p \in kept : Cardinality({q \in kept : q <= p}) = k
          IN /\ Len(norm.once) = Cardinality(kept)
             /\ \A k \in 1..Len(norm.once) :
                   /\ norm.once[k] \in LowerAlphabet
                   /\ \/ norm.once[k] = norm.text[nth(k)]
                      \/ CapitalOf(norm.once[k]) = norm.text[nth(k)]
    /\ norm.pc = "twice" => norm.twice = norm.once

\* C10 witness: a text with a capital and a non-letter has been normalized twice
C10_Witness ==
    /\ norm.pc = "twice"
    /\ norm.once # << >>
    /\ Len(norm.once) < Len(norm.text)
    /\ \E i \in 1..Len(norm.text) : norm.text[i] = 1025

\* the set of members of a sequence
Members(q) == {q[i] : i \in 1..Len(q)}

\* C11: a model built from normalized text has every key of its transition
\* table in start_states, so the start state of a generated password can be
\* any table key.
C11_StartsAreAllKeys ==
    (constructed /\ ctor.built /\ model # << >>) =>
        Members(start_states) = Members(DictKeys(model))

\* the character the last iteration of the walk appended
Appended == password_base[Len(password_base)]

\* the walk's last iteration was a dead end that appended a character, and
\* another iteration follows
AfterRecovery ==
    /\ genPC = "loop"
    /\ walk.dead_end
    /\ LoopContinues(password_base, length)

\* C12: after a dead end generate has drawn a key of the table and appended
\* one character of that key's successors, and the state the next iteration
\* looks up is made of the drawn key and the appended character, not of the
\* suffix of the base that was the dead end.
C12_ContinuesFromNewKey ==
    AfterRecovery =>
        /\ HasKey(model, state)
        /\ \E j \in 1..Len(DictGet(model, state)) : DictGet(model, state)[j] = Appended
        /\ LastChars(password_base, chain_order)
              = LastChars(state \o << Appended >>, chain_order)

\* model.pkl holds the table and the start states of the generator object
FileIsMemory ==
    /\ model_file.kind = "pickle"
    /\ model_file.data.model = model
    /\ model_file.data.start_states = start_states

\* C13: __init__ reads the corpus and rebuilds only under force_rebuild,
\* without a model.pkl or after a failed load, and otherwise takes the model
\* of model.pkl as it is; a successful build is saved over whatever model.pkl
\* held, so that after every successful construction model.pkl holds the
\* table and the start states of the object.
C13_RebuildOnlyWhenRequired ==
    /\ ctor.build_tried => RebuildRequired
    /\ (ctor.called /\ ~RebuildRequired) => (Loaded /\ ~ctor.built /\ ctor.file_same)
    /\ (constructed /\ Loaded) => ~ctor.build_tried
    /\ ctor.built => (constructed /\ ctor.saved)
    /\ constructed => FileIsMemory

\* C13 witness: a forced rebuild has replaced a different saved model
C13_Witness ==
    /\ constructed /\ ctor.built /\ ctor.force
    /\ ctor.file_kind = "pickle"
    /\ ~ctor.file_same
    /\ model # << >>

\* a step of a generate call: its start, one iteration or its end
GenerateStep ==
    \/ \E len \in 1..MaxLength : GenStart(len)
    \/ GenStep
    \/ GenFinish

\* C14: no step of generate, dead-end lookups included, changes the
\* transition table (its keys and their successors), start_states, the chain
\* order or model.pkl; so they are after the call what they were before it,
\* and a dead-end lookup adds no empty key to the table.
C14_GenerateReadOnly ==
    [][GenerateStep =>
          /\ model' = model
          /\ start_states' = start_states
          /\ chain_order' = chain_order
          /\ model_file' = model_file]_vars

\* C14 witness: a walk on a table built under the generator's chain order
\* has returned after looking up two suffixes that are not keys
C14_Witness ==
    /\ WalkReturned
    /\ walk.recoveries >= 2
    /\ built_from.chain_order = chain_order
    /\ FileIsMemory

====
